---- MODULE Spec2Model ----
(***************************************************************************)
(* The per-room coordinator of app/durableObjects/ChatRoom.server.ts       *)
(* (class ChatRoom): its durable storage, its connection set, its alarm    *)
(* and the lifecycle service it calls.                                     *)
(*                                                                         *)
(* Every handler is an async function.  A handler runs from one `await`    *)
(* to the next without interruption (JavaScript is single threaded); at    *)
(* an `await` it is suspended and any other suspended task may run.  A     *)
(* storage operation or a fetch takes effect when it is issued; the task   *)
(* that awaits it resumes in a later step.  A call that is not awaited     *)
(* (userLeftNotification, endMeeting and broadcastRoomState inside         *)
(* cleanupOldConnections) runs up to its first await inside the caller's   *)
(* step and then lives on as a task of its own.                            *)
(***************************************************************************)
EXTENDS Integers, Sequences, FiniteSets, TLC

\* ------------------------------------------------------------------ bounds
MaxTicks == 2
MaxMeetings == 2
MaxEvents == 4
MaxRaces == 1
MaxSilence == 3
MaxPeak == 2

\* ------------------------------------------------------- program constants
alarmInterval == 15000

\* the channel ids of the clients of the room
ConnIds == {1, 2}
\* an id no connection ever carries (a muteUser / directMessage target)
NoSuchId == 0

Undefined == "undefined"
NoMeetingId == 0
NoAlarm == 0

\* JavaScript truthiness of a string | null | undefined
Truthy(s) == s \notin {Undefined, ""}

\* request paths of incoming connections
Urls ==
  { <<"", "parties", "rooms", "abc123">>,
    <<"", "parties", "rooms", "xyz789">>,
    <<"", "parties", "lobby">> }

\* getUsername(ctx.request): the name the identity layer resolves for a channel
Names == <<"Alice", "Bob", "Carol", "Dave">>
getUsername(c) == Names[((c - 1) % Len(Names)) + 1]

VARIABLES
  roomCode,    \* storage key 'roomCode'   (Undefined when absent)
  meetingId,   \* storage key 'meetingId'  (NoMeetingId when absent)
  session,     \* storage keys 'session-{id}':   id -> User, defined where stored
  heartbeat,   \* storage keys 'heartbeat-{id}': id -> timestamp, where stored
  alarmAt,     \* the scheduled alarm (NoAlarm when none)
  conns,       \* the connection of each channel id: closed, open or closing
  codes,       \* the close code each channel was closed with since the event began
  broken,      \* channels whose send() throws (none while transports work)
  now,         \* Date.now()
  svc,         \* the lifecycle service as the event being handled meets it
  uuid,        \* number of ids crypto.randomUUID() has handed out
  tasks,       \* the suspended tasks, each a call stack
  sent,        \* messages delivered to each channel since the event began
  posts,       \* reports POSTed to the lifecycle service since the event began
  ev,          \* the event that ended the idle period, and the state it met
  lastEnded,   \* the meeting id of the last meeting endMeeting tore down
  started,     \* number of events begun (counted where handlers interleave)
  races        \* number of events that arrived while a task was suspended

vars == << roomCode, meetingId, session, heartbeat, alarmAt, conns, codes,
           broken, now, svc, uuid, tasks, sent, posts, ev, lastEnded, started,
           races >>

\* ------------------------------------------------------------- the world
\* What a handler step reads and writes, as one record.
World ==
  [ roomCode |-> roomCode, meetingId |-> meetingId, session |-> session,
    heartbeat |-> heartbeat, alarmAt |-> alarmAt, conns |-> conns,
    codes |-> codes, svc |-> svc, uuid |-> uuid, sent |-> sent, posts |-> posts,
    lastEnded |-> lastEnded ]

RECURSIVE SortedSeq(_)
SortedSeq(S) ==
  IF S = {} THEN <<>>
  ELSE LET m == CHOOSE x \in S : \A y \in S : x <= y
       IN <<m>> \o SortedSeq(S \ {m})

\* this.getConnections(): the open connections
getConnections(w) == {c \in ConnIds : w.conns[c] = "open"}

\* this.getUsers(): storage.list({prefix: 'session-'})
getUsers(w) == w.session

\* storage.put / storage.delete on a 'session-{id}' or 'heartbeat-{id}' key
PutMut(m, k, v) == m
Put(m, k, v) == [x \in DOMAIN m \cup {k} |-> IF x = k THEN v ELSE m[x]]
DelMut(m, k) == m
Del(m, k) == [x \in DOMAIN m \ {k} |-> m[x]]
NoRecords == [x \in {} |-> 0]

\* connection.close(code): an open connection starts closing with that code
CloseMut(w, c, code) == w

Close(w, c, code) ==
  IF w.conns[c] = "open"
  THEN [w EXCEPT !.conns[c] = "closing", !.codes[c] = code]
  ELSE w

CanSendMut(w, c) == w.conns[c] = "open"

\* connection.send succeeds on an open connection whose transport works
CanSend(w, c) == w.conns[c] = "open" /\ c \notin broken

\* connection.send(JSON.stringify(message))
Send(w, c, m) == [w EXCEPT !.sent[c] = Append(@, m)]

\* ----------------------------------------------------------------- users
DefaultUserMut(c, name) ==
  [ id |-> c, name |-> name, joined |-> TRUE, raisedHand |-> FALSE,
    speaking |-> FALSE,
    tracks |-> [ audioEnabled |-> FALSE, audioUnavailable |-> FALSE,
                 videoEnabled |-> FALSE, screenShareEnabled |-> FALSE ] ]

\* the User onConnect builds when storage holds none
DefaultUser(c, name) ==
  [ id |-> c, name |-> name, joined |-> FALSE, raisedHand |-> FALSE,
    speaking |-> FALSE,
    tracks |-> [ audioEnabled |-> FALSE, audioUnavailable |-> FALSE,
                 videoEnabled |-> FALSE, screenShareEnabled |-> FALSE ] ]

MutedMut(u) == [u EXCEPT !.tracks.videoEnabled = FALSE]

\* { ...otherUser, tracks: { ...otherUser.tracks, audioEnabled: false } }
Muted(u) == [u EXCEPT !.tracks.audioEnabled = FALSE]

\* the user payloads a client submits with userUpdate
UserPayloads(c) ==
  { [ id |-> c, name |-> getUsername(c), joined |-> TRUE, raisedHand |-> FALSE,
      speaking |-> TRUE,
      tracks |-> [ audioEnabled |-> TRUE, audioUnavailable |-> FALSE,
                   videoEnabled |-> TRUE, screenShareEnabled |-> FALSE ] ],
    [ id |-> NoSuchId, name |-> "Mallory", joined |-> TRUE, raisedHand |-> TRUE,
      speaking |-> FALSE,
      tracks |-> [ audioEnabled |-> FALSE, audioUnavailable |-> TRUE,
                   videoEnabled |-> FALSE, screenShareEnabled |-> TRUE ] ] }

\* ------------------------------------------------------------- messages
Malformed == [type |-> "not json"]
ClientMessages(c) ==
  { [type |-> "userLeft"], [type |-> "heartbeat"],
    [type |-> "callsApiHistoryEntry"], [type |-> "partyserver-ping"],
    [type |-> "bogus"], Malformed }
  \cup { [type |-> "userUpdate", user |-> u] : u \in UserPayloads(c) }
  \cup { [type |-> "directMessage", to |-> t, message |-> "hi"] :
           t \in ConnIds \cup {NoSuchId} }
  \cup { [type |-> "muteUser", id |-> t] : t \in ConnIds \cup {NoSuchId} }

ErrorMsg(e) == [type |-> "error", error |-> e]
\* [...users.values()]: the stored records in key order, without their keys
Values(m) ==
  LET keys == SortedSeq(DOMAIN m)
  IN [i \in 1 .. Len(keys) |-> m[keys[i]]]

\* { type: 'roomState', state: { meetingId, users: [...users.values()] } }
RoomStateMsgMut(mid, users) ==
  [type |-> "roomState", state |-> [meetingId |-> mid, users |-> <<>>]]

RoomStateMsg(mid, users) ==
  [type |-> "roomState", state |-> [meetingId |-> mid, users |-> Values(users)]]
UserLeftMsg(id) == [type |-> "userLeftNotification", id |-> id]
MuteMicMsg == [type |-> "muteMic"]
DirectMsgMut(from, message) ==
  [type |-> "directMessage", from |-> "", message |-> message]

\* { type: 'directMessage', from: fromUser!.name, message }
DirectMsg(from, message) ==
  [type |-> "directMessage", from |-> from, message |-> message]

\* ------------------------------------------------------------ call stacks
\* A configuration: the world, the running task's stack (top last), the tasks
\* it has started without awaiting them, whether it has reached an await (y),
\* and whether it has touched nothing but its own locals since it last
\* resumed (fresh).
RECURSIVE Run(_)

\* a task that is about to run
Task(w, st) == [w |-> w, st |-> st, sp |-> <<>>, y |-> FALSE, fresh |-> TRUE]

Top(cfg) == cfg.st[Len(cfg.st)]

\* the top frame becomes f and the task suspends at an await
Await(cfg, f, w) == [cfg EXCEPT !.w = w, !.st[Len(cfg.st)] = f, !.y = TRUE]

\* the top frame becomes f and the task runs on
Goto(cfg, f, w) ==
  [cfg EXCEPT !.w = w, !.st[Len(cfg.st)] = f, !.fresh = FALSE]

\* An await on something that reads and writes nothing shared (a value that is
\* only logged, the body of a response already received).  The step up to it
\* commutes with every step of every other task, so it is joined with the
\* step that follows it.
Local(cfg, f) == [cfg EXCEPT !.st[Len(cfg.st)] = f]

\* `await g(...)`: the callee starts inside the caller's step
Call(cfg, f, g, w) ==
  [cfg EXCEPT !.w = w, !.fresh = @ /\ w = cfg.w,
              !.st = Append([cfg.st EXCEPT ![Len(cfg.st)] = f], g)]

\* The async function returns v (<<>> for no value); its awaiter resumes
\* later.  A step that does nothing but return is joined with the awaiter's
\* next step, as in Local.
Return(cfg, v, w) ==
  LET n == Len(cfg.st)
      rest == SubSeq(cfg.st, 1, n - 1)
  IN [cfg EXCEPT
        !.w = w, !.y = ~(cfg.fresh /\ w = cfg.w /\ cfg.sp = <<>>),
        !.st = IF n = 1 THEN <<>>
               ELSE [rest EXCEPT ![n - 1] =
                       IF "ret" \in DOMAIN @ THEN [@ EXCEPT !.ret = v] ELSE @]]

SpawnMut(cfg, g) == cfg

\* g(...) without await: it runs to its first await, then lives as its own task
Spawn(cfg, g) ==
  LET c == Run(Task(cfg.w, <<g>>))
  IN [cfg EXCEPT !.w = c.w,
                 !.sp = cfg.sp \o c.sp \o (IF c.st = <<>> THEN <<>> ELSE <<c.st>>)]

\* ------------------------------------------------------- lifecycle service
\* GET /meeting/room/{roomCode}
Response(w, code) ==
  [ok |-> code \in w.svc.valid, peakUsers |-> w.svc.peakUsers,
   status |-> w.svc.status]
BadRequest == [ok |-> FALSE, peakUsers |-> 0, status |-> "planned"]

IsRoomValidFrame(code) ==
  [fn |-> "isRoomValid", pc |-> "start", code |-> code, resp |-> BadRequest]

isRoomValid(cfg) ==
  LET f == Top(cfg)
      w == cfg.w
  IN CASE f.pc = "start" ->
            IF ~Truthy(f.code) THEN Return(cfg, <<BadRequest>>, w)
            ELSE Await(cfg, [f EXCEPT !.pc = "fetched",
                                      !.resp = Response(w, f.code)], w)
       [] f.pc = "fetched" -> Return(cfg, <<f.resp>>, w)

UpdateMeetingStatsFrame(roomId, payload) ==
  [fn |-> "updateMeetingStats", pc |-> "start", roomId |-> roomId,
   payload |-> payload, ok |-> FALSE]

updateMeetingStats(cfg) ==
  LET f == Top(cfg)
      w == cfg.w
  IN CASE f.pc = "start" ->
            Await(cfg, [f EXCEPT !.pc = "posted", !.ok = f.roomId \in w.svc.valid],
                  [w EXCEPT
                     !.posts = Append(@, [roomId |-> f.roomId,
                                          peakUsers |-> f.payload.peakUsers,
                                          status |-> f.payload.status])])
       [] f.pc = "posted" -> Return(cfg, <<f.ok>>, w)

\* ----------------------------------------------------------------- meeting
\* ["done", "canceled", "no_show"].includes(response.data.status)
Ended(status) == status \in {"done", "canceled", "no_show"}

MeetingMut(rc, resp, mid) ==
  [roomId |-> rc, ended |-> Ended(resp.status),
   peakUserCount |-> resp.peakUsers + 1, id |-> mid]

Meeting(rc, resp, mid) ==
  [roomId |-> rc, ended |-> Ended(resp.status),
   peakUserCount |-> resp.peakUsers, id |-> mid]

GetMeetingFrame(mid) ==
  [fn |-> "getMeeting", pc |-> "start", mid |-> mid, rc |-> Undefined,
   ret |-> <<>>]

getMeeting(cfg) ==
  LET f == Top(cfg)
      w == cfg.w
  IN CASE f.pc = "start" ->
            Await(cfg, [f EXCEPT !.pc = "gotCode", !.rc = w.roomCode], w)
       [] f.pc = "gotCode" ->
            IF ~Truthy(f.rc) THEN Return(cfg, <<>>, w)
            ELSE Call(cfg, [f EXCEPT !.pc = "valid"], IsRoomValidFrame(f.rc), w)
       [] f.pc = "valid" ->
            IF ~f.ret[1].ok THEN Return(cfg, <<>>, w)
            ELSE Local(cfg, [f EXCEPT !.pc = "json"])
       [] f.pc = "json" -> Return(cfg, <<Meeting(f.rc, f.ret[1], f.mid)>>, w)

\* crypto.randomUUID(): an id no earlier call returned
randomUUIDMut(w) == 1
randomUUID(w) == w.uuid + 1

CreateMeetingFrame ==
  [fn |-> "createMeeting", pc |-> "start", mid |-> NoMeetingId, ret |-> <<>>]

createMeeting(cfg) ==
  LET f == Top(cfg)
      w == cfg.w
  IN CASE f.pc = "start" ->
            LET id == randomUUID(w)
            IN Await(cfg, [f EXCEPT !.pc = "put", !.mid = id],
                     [w EXCEPT !.uuid = @ + 1, !.meetingId = id])
       [] f.pc = "put" ->
            Call(cfg, [f EXCEPT !.pc = "got"], GetMeetingFrame(f.mid), w)
       [] f.pc = "got" -> Return(cfg, f.ret, w)

\* ------------------------------------------------------------- broadcasts
BroadcastMessageFrame(msg) ==
  [fn |-> "broadcastMessage", pc |-> "start", msg |-> msg, last |-> 0,
   quit |-> FALSE]

BroadcastRoomStateFrame ==
  [fn |-> "broadcastRoomState", pc |-> "start", mid |-> NoMeetingId,
   users |-> NoRecords]

\* the connection the for-of loop over getConnections() visits next
NextConnection(w, last) ==
  LET rest == {c \in getConnections(w) : c > last}
  IN IF rest = {} THEN 0 ELSE CHOOSE c \in rest : \A d \in rest : c <= d

broadcastMessage(cfg) ==
  LET f == Top(cfg)
      w == cfg.w
  IN CASE f.pc = "start" -> Await(cfg, [f EXCEPT !.pc = "loop"], w)
       [] f.pc = "loop" ->
            LET c == NextConnection(w, f.last)
            IN IF c = 0
               THEN IF f.quit
                    THEN Call(cfg, [f EXCEPT !.pc = "done"],
                              BroadcastRoomStateFrame, w)
                    ELSE Return(cfg, <<>>, w)
               ELSE IF CanSend(w, c)
               THEN Goto(cfg, [f EXCEPT !.last = c], Send(w, c, f.msg))
               ELSE Await(cfg, [f EXCEPT !.last = c, !.quit = TRUE],
                          [Close(w, c, 1011) EXCEPT !.session = Del(@, c)])
       [] f.pc = "done" -> Return(cfg, <<>>, w)

broadcastRoomState(cfg) ==
  LET f == Top(cfg)
      w == cfg.w
  IN CASE f.pc = "start" ->
            Await(cfg, [f EXCEPT !.pc = "gotId", !.mid = w.meetingId], w)
       [] f.pc = "gotId" ->
            IF f.mid = NoMeetingId
            THEN Call(cfg, [f EXCEPT !.pc = "done"],
                      BroadcastMessageFrame(
                        ErrorMsg("No meetingId found, closing connection")), w)
            ELSE Await(cfg, [f EXCEPT !.pc = "gotUsers", !.users = getUsers(w)], w)
       [] f.pc = "gotUsers" ->
            Call(cfg, [f EXCEPT !.pc = "done", !.users = NoRecords],
                 BroadcastMessageFrame(RoomStateMsg(f.mid, f.users)), w)
       [] f.pc = "done" -> Return(cfg, <<>>, w)

\* this.broadcastMessage({type: 'userLeftNotification', id}), not awaited
userLeftNotification(cfg, id) == Spawn(cfg, BroadcastMessageFrame(UserLeftMsg(id)))

\* ------------------------------------------------------------------ sweep
IsStaleMut(hb, t) == hb = <<>> \/ hb[1] + alarmInterval <= t

\* heartbeat === undefined || heartbeat + alarmInterval < now
IsStale(hb, t) == hb = <<>> \/ hb[1] + alarmInterval < t

EndMeetingFrame(mid) ==
  [fn |-> "endMeeting", pc |-> "start", mid |-> mid, rc |-> Undefined,
   ret |-> <<>>]

\* storage.deleteAll(): every stored key goes; the alarm is not a stored key
deleteAllMut(w) ==
  [w EXCEPT !.roomCode = Undefined, !.meetingId = NoMeetingId,
            !.session = NoRecords]

deleteAll(w) ==
  [w EXCEPT !.roomCode = Undefined, !.meetingId = NoMeetingId,
            !.session = NoRecords, !.heartbeat = NoRecords]

\* peakUsers: meeting?.peakUserCount ?? 0
PeakOf(meeting) == IF meeting = <<>> THEN 0 ELSE meeting[1].peakUserCount

endMeeting(cfg) ==
  LET f == Top(cfg)
      w == cfg.w
  IN CASE f.pc = "start" ->
            Await(cfg, [f EXCEPT !.pc = "gotCode", !.rc = w.roomCode], w)
       [] f.pc = "gotCode" ->
            Await(cfg, [f EXCEPT !.pc = "deleted"],
                  [deleteAll(w) EXCEPT !.lastEnded = f.mid])
       [] f.pc = "deleted" ->
            IF ~Truthy(f.rc) THEN Return(cfg, <<>>, w)
            ELSE Call(cfg, [f EXCEPT !.pc = "gotMeeting"], GetMeetingFrame(f.mid), w)
       [] f.pc = "gotMeeting" ->
            Call(cfg, [f EXCEPT !.pc = "updated"],
                 UpdateMeetingStatsFrame(
                   f.rc, [peakUsers |-> PeakOf(f.ret), status |-> "done"]), w)
       [] f.pc = "updated" -> Return(cfg, <<>>, w)

CleanupFrame ==
  [fn |-> "cleanupOldConnections", pc |-> "start", mid |-> NoMeetingId,
   nowL |-> 0, todo |-> <<>>, removed |-> 0, connections |-> {},
   hb |-> <<>>, count |-> 0]

\* the branch after the sweep's loop: end the meeting, or broadcast the roster
AfterSweepMut(cfg, f) ==
  IF f.removed > 0 THEN Spawn(cfg, BroadcastRoomStateFrame) ELSE cfg

AfterSweep(cfg, f) ==
  IF f.mid # NoMeetingId /\ f.count = 0 THEN Spawn(cfg, EndMeetingFrame(f.mid))
  ELSE IF f.removed > 0 THEN Spawn(cfg, BroadcastRoomStateFrame)
  ELSE cfg

cleanupOldConnections(cfg) ==
  LET f == Top(cfg)
      w == cfg.w
  IN CASE f.pc = "start" ->
            Await(cfg, [f EXCEPT !.pc = "gotId", !.mid = w.meetingId], w)
       [] f.pc = "gotId" ->
            Await(cfg, [f EXCEPT !.pc = "gotUsers", !.nowL = now,
                                 !.todo = SortedSeq(DOMAIN getUsers(w))], w)
       [] f.pc = "gotUsers" ->
            Goto(cfg, [f EXCEPT !.pc = "loop", !.removed = 0,
                                !.connections = getConnections(w)], w)
       [] f.pc = "loop" ->
            IF f.todo = <<>>
            THEN Await(cfg, [f EXCEPT !.pc = "counted", !.connections = {},
                                      !.count = Cardinality(DOMAIN getUsers(w))], w)
            ELSE LET id == Head(f.todo)
                 IN Await(cfg, [f EXCEPT !.pc = "gotHb",
                                  !.hb = IF id \in DOMAIN w.heartbeat
                                         THEN <<w.heartbeat[id]>> ELSE <<>>], w)
       [] f.pc = "gotHb" ->
            LET id == Head(f.todo)
            IN IF IsStale(f.hb, f.nowL)
               THEN LET c1 == userLeftNotification(cfg, id)
                    IN Await(c1, [f EXCEPT !.pc = "deleted", !.hb = <<>>,
                                           !.removed = @ + 1],
                             [c1.w EXCEPT !.session = Del(@, id)])
               ELSE Goto(cfg, [f EXCEPT !.pc = "loop", !.hb = <<>>,
                                        !.todo = Tail(@)], w)
       [] f.pc = "deleted" ->
            LET id == Head(f.todo)
            IN Goto(cfg, [f EXCEPT !.pc = "loop", !.todo = Tail(@)],
                    IF id \in f.connections THEN Close(w, id, 1011) ELSE w)
       [] f.pc = "counted" ->
            LET c1 == AfterSweep(cfg, f)
            IN Return(c1, <<f.count>>, c1.w)

\* ctx.storage.setAlarm(Date.now() + alarmInterval)
setAlarmMut(w) == w
setAlarm(w) == [w EXCEPT !.alarmAt = now + alarmInterval]

AlarmFrame == [fn |-> "alarm", pc |-> "start", count |-> 0, ret |-> <<>>]

RearmMut(w, count) == w

\* if (activeUserCount !== 0) setAlarm(...)
Rearm(w, count) == IF count # 0 THEN setAlarm(w) ELSE w

alarm(cfg) ==
  LET f == Top(cfg)
      w == cfg.w
  IN CASE f.pc = "start" -> Local(cfg, [f EXCEPT !.pc = "gotId"])
       [] f.pc = "gotId" -> Call(cfg, [f EXCEPT !.pc = "cleaned"], CleanupFrame, w)
       [] f.pc = "cleaned" ->
            Call(cfg, [f EXCEPT !.pc = "broadcasted", !.count = f.ret[1]],
                 BroadcastRoomStateFrame, w)
       [] f.pc = "broadcasted" -> Return(cfg, <<>>, Rearm(w, f.count))

\* ------------------------------------------------------------ peak users
\* meeting.ended !== null, with ended the boolean getMeeting computed
NotNullMut(b) == b
NotNull(b) == b \in BOOLEAN

TrackPeakUserCountFrame ==
  [fn |-> "trackPeakUserCount", pc |-> "start", mid |-> NoMeetingId,
   meeting |-> <<>>, count |-> 0, ret |-> <<>>]

trackPeakUserCount(cfg) ==
  LET f == Top(cfg)
      w == cfg.w
  IN CASE f.pc = "start" ->
            Await(cfg, [f EXCEPT !.pc = "gotId", !.mid = w.meetingId], w)
       [] f.pc = "gotId" ->
            IF f.mid # NoMeetingId
            THEN Call(cfg, [f EXCEPT !.pc = "gotMeeting"], GetMeetingFrame(f.mid), w)
            ELSE Call(cfg, [f EXCEPT !.pc = "gotMeeting"], CreateMeetingFrame, w)
       [] f.pc = "gotMeeting" ->
            Call(cfg, [f EXCEPT !.pc = "cleaned", !.meeting = f.ret], CleanupFrame, w)
       [] f.pc = "cleaned" ->
            IF f.meeting = <<>> THEN Return(cfg, <<>>, w)
            ELSE Await(cfg, [f EXCEPT !.pc = "counted",
                                      !.count = Cardinality(DOMAIN getUsers(w))], w)
       [] f.pc = "counted" ->
            LET m == f.meeting[1]
            IN IF f.count > m.peakUserCount \/ NotNull(m.ended)
               THEN Call(cfg, [f EXCEPT !.pc = "updated", !.meeting = <<>>],
                         UpdateMeetingStatsFrame(
                           m.roomId, [peakUsers |-> m.peakUserCount,
                                      status |-> "started"]), w)
               ELSE Return(cfg, <<>>, w)
       [] f.pc = "updated" -> Return(cfg, <<>>, w)

\* ---------------------------------------------------------------- connect
IndexOf(seq, x) ==
  IF \E i \in 1 .. Len(seq) : seq[i] = x
  THEN CHOOSE i \in 1 .. Len(seq) : seq[i] = x /\ \A j \in 1 .. (i - 1) : seq[j] # x
  ELSE 0

\* the path segment after 'rooms', or null
extractRoomCode(url) ==
  LET idx == IndexOf(url, "rooms")
  IN IF idx # 0 /\ idx + 1 <= Len(url) THEN url[idx + 1] ELSE Undefined

OnConnectFrame(c, url) ==
  [fn |-> "onConnect", pc |-> "start", conn |-> c, url |-> url,
   code |-> Undefined, stored |-> Undefined, alarmRead |-> NoAlarm,
   user |-> <<>>, ret |-> <<>>]

\* the invalid-room branch: an error message, then close(4004)
RejectMut(w, c) == Close(w, c, 4004)

Reject(w, c) ==
  IF CanSend(w, c) THEN Close(Send(w, c, ErrorMsg("Room invalid")), c, 4004)
  ELSE w

\* the record onConnect stores: the one found in storage, or a default one
UserToStoreMut(found, c) == DefaultUser(c, getUsername(c))

UserToStore(found, c) ==
  IF found = <<>> THEN DefaultUser(c, getUsername(c)) ELSE found[1]

\* !(await this.ctx.storage.get('roomCode')): no room code is stored yet
UnsetMut(stored) == TRUE
Unset(stored) == ~Truthy(stored)

onConnect(cfg) ==
  LET f == Top(cfg)
      w == cfg.w
      c == f.conn
  IN CASE f.pc = "start" ->
            LET code == extractRoomCode(f.url)
            IN IF Truthy(code)
               THEN Await(cfg, [f EXCEPT !.pc = "gotRoomCode", !.code = code,
                                         !.stored = w.roomCode], w)
               ELSE Call(cfg, [f EXCEPT !.pc = "validated", !.code = code],
                         IsRoomValidFrame(code), w)
       [] f.pc = "gotRoomCode" ->
            IF Unset(f.stored)
            THEN Await(cfg, [f EXCEPT !.pc = "validate"],
                       [w EXCEPT !.roomCode = f.code])
            ELSE Call(cfg, [f EXCEPT !.pc = "validated", !.stored = Undefined],
                      IsRoomValidFrame(f.code), w)
       [] f.pc = "validate" ->
            Call(cfg, [f EXCEPT !.pc = "validated"], IsRoomValidFrame(f.code), w)
       [] f.pc = "validated" ->
            IF ~f.ret[1].ok THEN Return(cfg, <<>>, Reject(w, c))
            ELSE Local(cfg, [f EXCEPT !.pc = "gotMeetingId", !.ret = <<>>])
       [] f.pc = "gotMeetingId" ->
            Await(cfg, [f EXCEPT !.pc = "gotAlarm", !.alarmRead = w.alarmAt], w)
       [] f.pc = "gotAlarm" ->
            Await(cfg, [f EXCEPT !.pc = "gotUsername", !.alarmRead = NoAlarm],
                  IF f.alarmRead = NoAlarm THEN setAlarm(w) ELSE w)
       [] f.pc = "gotUsername" ->
            Await(cfg, [f EXCEPT !.pc = "gotUser",
                          !.user = IF c \in DOMAIN w.session
                                   THEN <<w.session[c]>> ELSE <<>>], w)
       [] f.pc = "gotUser" ->
            Await(cfg, [f EXCEPT !.pc = "putUser", !.user = <<>>],
                  [w EXCEPT !.session = Put(@, c, UserToStore(f.user, c))])
       [] f.pc = "putUser" ->
            Await(cfg, [f EXCEPT !.pc = "putHeartbeat"],
                  [w EXCEPT !.heartbeat = Put(@, c, now)])
       [] f.pc = "putHeartbeat" ->
            Call(cfg, [f EXCEPT !.pc = "tracked"], TrackPeakUserCountFrame, w)
       [] f.pc = "tracked" ->
            Call(cfg, [f EXCEPT !.pc = "broadcasted"], BroadcastRoomStateFrame, w)
       [] f.pc = "broadcasted" -> Return(cfg, <<>>, w)

\* ---------------------------------------------------------------- messages
OnMessageFrame(c, data) ==
  [fn |-> "onMessage", pc |-> "start", conn |-> c, data |-> data,
   user |-> <<>>, err |-> ""]

ThrowMut(cfg, f, err) == Return(cfg, <<>>, cfg.w)

\* an exception inside the try block: the catch block awaits getMeetingId()
Throw(cfg, f, err) ==
  Await(cfg, [f EXCEPT !.pc = "catch", !.err = err, !.user = <<>>], cfg.w)

ReadMut(m, k) == <<>>

\* ctx.storage.get of a 'session-{id}' key: the record, or undefined
Read(m, k) == IF k \in DOMAIN m THEN <<m[k]>> ELSE <<>>

StoreUpdateMut(w, c, user) == [w EXCEPT !.session = Put(@, user.id, user)]

\* this.ctx.storage.put(`session-${connection.id}`, data.user)
StoreUpdate(w, c, user) == [w EXCEPT !.session = Put(@, c, user)]

HasConnectionMut(w, id) == id \in getConnections(w) \cup DOMAIN w.session

\* the for-of loop over getConnections() meets a connection with that id
HasConnection(w, id) == id \in getConnections(w)

onMessage(cfg) ==
  LET f == Top(cfg)
      w == cfg.w
      c == f.conn
      data == f.data
  IN CASE f.pc = "start" -> Local(cfg, [f EXCEPT !.pc = "gotId"])
       [] f.pc = "gotId" ->
            CASE data = Malformed -> Throw(cfg, f, "SyntaxError")
              [] data.type = "userLeft" ->
                   LET c1 == userLeftNotification(
                               [cfg EXCEPT !.w = Close(w, c, 1000)], c)
                   IN Await(c1, [f EXCEPT !.pc = "ul1"],
                            [c1.w EXCEPT !.session = Del(@, c)])
              [] data.type = "userUpdate" ->
                   Call(cfg, [f EXCEPT !.pc = "end"], BroadcastRoomStateFrame,
                        StoreUpdate(w, c, data.user))
              [] data.type \in {"callsApiHistoryEntry", "partyserver-ping"} ->
                   Return(cfg, <<>>, w)
              [] data.type = "directMessage" ->
                   Await(cfg, [f EXCEPT !.pc = "dm1", !.user = Read(w.session, c)], w)
              [] data.type = "muteUser" ->
                   Await(cfg, [f EXCEPT !.pc = "mu1", !.user = Read(w.session, c)], w)
              [] data.type = "heartbeat" ->
                   Await(cfg, [f EXCEPT !.pc = "end"],
                         [w EXCEPT !.heartbeat = Put(@, c, now)])
              [] OTHER -> Throw(cfg, f, "Error: assertNever")
       [] f.pc = "ul1" ->
            Await(cfg, [f EXCEPT !.pc = "ul2"], [w EXCEPT !.heartbeat = Del(@, c)])
       [] f.pc = "ul2" ->
            Call(cfg, [f EXCEPT !.pc = "end"], BroadcastRoomStateFrame, w)
       [] f.pc = "dm1" ->
            IF HasConnection(w, data.to)
            THEN IF f.user = <<>> \/ ~CanSend(w, data.to)
                 THEN Throw(cfg, f, "TypeError")
                 ELSE Return(cfg, <<>>,
                             Send(w, data.to, DirectMsg(f.user[1].name, data.message)))
            ELSE IF f.user = <<>> THEN Throw(cfg, f, "TypeError")
            ELSE Return(cfg, <<>>, w)
       [] f.pc = "mu1" ->
            IF HasConnection(w, data.id)
            THEN Await(cfg, [f EXCEPT !.pc = "mu2", !.user = Read(w.session, data.id)], w)
            ELSE IF f.user = <<>> THEN Throw(cfg, f, "TypeError")
            ELSE Return(cfg, <<>>, w)
       [] f.pc = "mu2" ->
            IF f.user = <<>> THEN Throw(cfg, f, "TypeError")
            ELSE Await(cfg, [f EXCEPT !.pc = "mu3", !.user = <<>>],
                       [w EXCEPT !.session = Put(@, data.id, Muted(f.user[1]))])
       [] f.pc = "mu3" ->
            IF ~CanSend(w, data.id) THEN Throw(cfg, f, "TypeError")
            ELSE Call(cfg, [f EXCEPT !.pc = "end"], BroadcastRoomStateFrame,
                      Send(w, data.id, MuteMicMsg))
       [] f.pc = "end" -> Return(cfg, <<>>, w)
       [] f.pc = "catch" ->
            Return(cfg, <<>>, IF CanSend(w, c) THEN Send(w, c, ErrorMsg(f.err)) ELSE w)

\* ------------------------------------------------------------------- close
OnCloseFrame(c) == [fn |-> "onClose", pc |-> "start", conn |-> c]

onCloseMut(cfg) ==
  Return(cfg, <<>>, [cfg.w EXCEPT !.session = Del(@, Top(cfg).conn)])

\* await this.getMeetingId(), then log(...): nothing is written
onClose(cfg) ==
  LET f == Top(cfg)
  IN CASE f.pc = "start" -> Local(cfg, [f EXCEPT !.pc = "gotId"])
       [] f.pc = "gotId" -> Return(cfg, <<>>, cfg.w)

\* ------------------------------------------------------------------ start
OnStartFrame == [fn |-> "onStart", pc |-> "start", rc |-> Undefined, ret |-> <<>>]

deleteAlarmMut(w) == w

\* ctx.storage.deleteAlarm()
deleteAlarm(w) == [w EXCEPT !.alarmAt = NoAlarm]

\* for (const c of this.getConnections()) c.close(4004, 'Room invalid')
CloseAll(w, code) ==
  [w EXCEPT !.conns = [c \in ConnIds |->
                         IF w.conns[c] = "open" THEN "closing" ELSE w.conns[c]],
            !.codes = [c \in ConnIds |->
                         IF w.conns[c] = "open" THEN code ELSE w.codes[c]]]

onStart(cfg) ==
  LET f == Top(cfg)
      w == cfg.w
  IN CASE f.pc = "start" ->
            Await(cfg, [f EXCEPT !.pc = "gotCode", !.rc = w.roomCode], w)
       [] f.pc = "gotCode" ->
            IF ~Truthy(f.rc) THEN Return(cfg, <<>>, w)
            ELSE Call(cfg, [f EXCEPT !.pc = "validated"], IsRoomValidFrame(f.rc), w)
       [] f.pc = "validated" ->
            IF ~f.ret[1].ok
            THEN Await(cfg, [f EXCEPT !.pc = "noAlarm", !.ret = <<>>], deleteAlarm(w))
            ELSE Return(cfg, <<>>, w)
       [] f.pc = "noAlarm" ->
            Await(cfg, [f EXCEPT !.pc = "deleted"], deleteAll(CloseAll(w, 4004)))
       [] f.pc = "deleted" -> Return(cfg, <<>>, w)

\* ------------------------------------------------------------- one step
Exec(cfg) ==
  LET fn == Top(cfg).fn
  IN CASE fn = "onConnect" -> onConnect(cfg)
       [] fn = "onStart" -> onStart(cfg)
       [] fn = "onMessage" -> onMessage(cfg)
       [] fn = "onClose" -> onClose(cfg)
       [] fn = "alarm" -> alarm(cfg)
       [] fn = "isRoomValid" -> isRoomValid(cfg)
       [] fn = "updateMeetingStats" -> updateMeetingStats(cfg)
       [] fn = "getMeeting" -> getMeeting(cfg)
       [] fn = "createMeeting" -> createMeeting(cfg)
       [] fn = "trackPeakUserCount" -> trackPeakUserCount(cfg)
       [] fn = "cleanupOldConnections" -> cleanupOldConnections(cfg)
       [] fn = "endMeeting" -> endMeeting(cfg)
       [] fn = "broadcastRoomState" -> broadcastRoomState(cfg)
       [] fn = "broadcastMessage" -> broadcastMessage(cfg)

\* a task runs until it suspends at an await or its last function returns
Run(cfg) ==
  LET n == Exec(cfg)
  IN IF n.y \/ n.st = <<>> THEN n ELSE Run(n)

\* ------------------------------------------------------------ the machine
NoEvent == [kind |-> "none"]
NoSent == [c \in ConnIds |-> <<>>]
NoCodes == [c \in ConnIds |-> 0]
Unobserved == [valid |-> {}, status |-> "planned", peakUsers |-> 0]

\* the storage and connection set an event starts from
Pre ==
  [ roomCode |-> roomCode, meetingId |-> meetingId, session |-> session,
    heartbeat |-> heartbeat, alarmAt |-> alarmAt, open |-> getConnections(World),
    svc |-> svc ]

Init ==
  /\ roomCode = Undefined
  /\ meetingId = NoMeetingId
  /\ session = NoRecords
  /\ heartbeat = NoRecords
  /\ alarmAt = NoAlarm
  /\ conns = [c \in ConnIds |-> "closed"]
  /\ codes = NoCodes
  /\ broken = {}
  /\ now = 0
  /\ svc = Unobserved
  /\ uuid = 0
  /\ tasks = <<>>
  /\ sent = NoSent
  /\ posts = <<>>
  /\ ev = NoEvent
  /\ lastEnded = NoMeetingId
  /\ started = 0
  /\ races = 0

\* the world after a step, and the tasks it leaves suspended
Commit(r, before, after) ==
  /\ roomCode' = r.w.roomCode
  /\ meetingId' = r.w.meetingId
  /\ session' = r.w.session
  /\ heartbeat' = r.w.heartbeat
  /\ alarmAt' = r.w.alarmAt
  /\ conns' = r.w.conns
  /\ codes' = r.w.codes
  /\ svc' = r.w.svc
  /\ uuid' = r.w.uuid
  /\ sent' = r.w.sent
  /\ posts' = r.w.posts
  /\ lastEnded' = r.w.lastEnded
  /\ tasks' = before \o (IF r.st = <<>> THEN <<>> ELSE <<r.st>>) \o after \o r.sp

\* A task runs to its next await.  When events are handled one at a time
\* (alone) and no other task exists, nothing can run in between, and the task
\* runs on through its awaits until it has started another task or has ended.
RECURSIVE Drive(_, _, _)
Drive(cfg, others, alone) ==
  LET n == Run(cfg)
  IN IF alone /\ n.st # <<>> /\ n.sp = <<>> /\ others = <<>>
     THEN Drive(Task(n.w, n.st), others, alone)
     ELSE n

\* the coordinator is idle: no task is suspended and the last event is settled
Quiet == tasks = <<>> /\ ev.kind = "none"

\* the event that ends an idle period is recorded with the state it met
Record(e) == IF Quiet THEN e ELSE ev

\* an event arrives: its handler runs to its first await
Begin(frame, w, alone) ==
  Commit(Drive(Task(w, <<frame>>), tasks, alone),
         tasks, <<>>)

\* The states the lifecycle service can be in when a connection arrives.  It
\* knows one room, abc123; a request for anything else gets the same answer
\* in every state of the service.
ServiceStates(url) ==
  IF extractRoomCode(url) = "abc123"
  THEN { [valid |-> {"abc123"}, status |-> "planned", peakUsers |-> 0],
         [valid |-> {"abc123"}, status |-> "cancelled", peakUsers |-> 1],
         [valid |-> {}, status |-> "done", peakUsers |-> 1] }
  ELSE { [valid |-> {"abc123"}, status |-> "planned", peakUsers |-> 0] }

\* a client opens (or reopens) the channel with id c
Connect(c, url, s, alone) ==
  /\ conns[c] = "closed"
  /\ uuid < MaxMeetings
  /\ Begin(OnConnectFrame(c, url),
           [World EXCEPT !.conns[c] = "open", !.svc = s], alone)
  /\ ev' = Record([kind |-> "connect", conn |-> c, url |-> url,
                   pre |-> Pre])
  /\ UNCHANGED << broken, now >>

\* a message of channel c arrives; messages sent before the client saw the
\* server close the channel still arrive while the channel is closing
Message(c, data, alone) ==
  /\ conns[c] \in {"open", "closing"}
  /\ Begin(OnMessageFrame(c, data), World, alone)
  /\ ev' = Record([kind |-> "message", conn |-> c, data |-> data,
                   pre |-> Pre])
  /\ UNCHANGED << broken, now >>

\* the close of channel c completes (started by the client, the network or
\* the server)
Closed(c, alone) ==
  /\ conns[c] \in {"open", "closing"}
  /\ Begin(OnCloseFrame(c), [World EXCEPT !.conns[c] = "closed"], alone)
  /\ ev' = Record([kind |-> "close", conn |-> c,
                   pre |-> Pre])
  /\ UNCHANGED << broken, now >>

\* the scheduled alarm is due: the runtime clears it and calls alarm()
Alarm(alone) ==
  /\ alarmAt # NoAlarm
  /\ now >= alarmAt
  /\ Begin(AlarmFrame, [World EXCEPT !.alarmAt = NoAlarm], alone)
  /\ ev' = Record([kind |-> "alarm", pre |-> Pre])
  /\ UNCHANGED << broken, now >>

\* a suspended task resumes and runs to its next await
Resume(i, alone) ==
  /\ i \in 1 .. Len(tasks)
  /\ Commit(Drive(Task(World, tasks[i]),
                  SubSeq(tasks, 1, i - 1) \o SubSeq(tasks, i + 1, Len(tasks)),
                  alone),
            SubSeq(tasks, 1, i - 1), SubSeq(tasks, i + 1, Len(tasks)))
  /\ UNCHANGED << broken, now, ev, started, races >>

\* every task has finished: the coordinator is idle again, and what the
\* event sent, posted and closed has been observed
Settle ==
  /\ tasks = <<>>
  /\ ev.kind # "none"
  /\ ev' = NoEvent
  /\ sent' = NoSent
  /\ posts' = <<>>
  /\ codes' = NoCodes
  /\ svc' = Unobserved
  /\ UNCHANGED << roomCode, meetingId, session, heartbeat, alarmAt, conns,
                  broken, now, uuid, tasks, lastEnded, started, races >>

\* The clock advances to the next instant the sweep can observe.  Time that
\* passes while nothing is stored and no alarm is set only shifts the origin,
\* and a due alarm fires before the clock moves on.
Elapse(max) ==
  /\ now < max * alarmInterval
  /\ alarmAt # NoAlarm \/ DOMAIN session # {}
  /\ ~(alarmAt # NoAlarm /\ now >= alarmAt)
  /\ now' = now + alarmInterval
  /\ UNCHANGED << roomCode, meetingId, session, heartbeat, alarmAt, conns,
                  codes, broken, svc, uuid, tasks, sent, posts, ev, lastEnded,
                  started, races >>

Tick == Elapse(MaxTicks)

\* events are handled one at a time
Next ==
  \/ \E c \in ConnIds, url \in Urls : \E s \in ServiceStates(url) :
       Quiet /\ Connect(c, url, s, TRUE) /\ UNCHANGED << started, races >>
  \/ \E c \in ConnIds : \E data \in ClientMessages(c) :
       Quiet /\ Message(c, data, TRUE) /\ UNCHANGED << started, races >>
  \/ \E c \in ConnIds : Quiet /\ Closed(c, TRUE) /\ UNCHANGED << started, races >>
  \/ Quiet /\ Alarm(TRUE) /\ UNCHANGED << started, races >>
  \/ \E i \in 1 .. Len(tasks) : Resume(i, TRUE)
  \/ Settle
  \/ Quiet /\ Tick

Spec == Init /\ [][Next]_vars

\* ---------------------------------------------------- interleaved handlers
\* An event may arrive while the task of an earlier event is suspended at an
\* await; the tasks then run one step at a time, in any order.  The clients
\* are those of a valid room: they connect to abc123 and they leave.
AsyncUrl == <<"", "parties", "rooms", "abc123">>
AsyncService == [valid |-> {"abc123"}, status |-> "planned", peakUsers |-> 0]
AsyncMessages(c) == {m \in ClientMessages(c) : m.type = "userLeft"}

\* an event arrives at an idle coordinator, or in the middle of a handler
MayBegin ==
  /\ started < MaxEvents
  /\ Quiet \/ (tasks # <<>> /\ races < MaxRaces)

\* the event is counted, and counted as a race when it arrives mid-handler
Count ==
  /\ started' = started + 1
  /\ races' = IF Quiet THEN races ELSE races + 1

\* once no further event can arrive mid-handler, a lone task runs undisturbed
NoMoreRaces == races = MaxRaces

NextAsync ==
  \/ \E c \in ConnIds :
       MayBegin /\ Connect(c, AsyncUrl, AsyncService, NoMoreRaces) /\ Count
  \/ \E c \in ConnIds : \E data \in AsyncMessages(c) :
       MayBegin /\ Message(c, data, NoMoreRaces) /\ Count
  \/ \E c \in ConnIds : MayBegin /\ Closed(c, NoMoreRaces) /\ Count
  \/ MayBegin /\ Alarm(NoMoreRaces) /\ Count
  \/ \E i \in 1 .. Len(tasks) : Resume(i, NoMoreRaces)
  \/ Settle
  \/ Quiet /\ Tick

SpecAsync == Init /\ [][NextAsync]_vars

\* ------------------------------------------------------------------ claims
\* the event is handled: its handler and every task it started have finished
Done == tasks = <<>> /\ ev.kind # "none"

\* the roomState messages among the messages delivered to channel c
RoomStates(c) == {i \in 1 .. Len(sent[c]) : sent[c][i].type = "roomState"}

\* C1: at every settle point (no handler or task in progress), whatever the
\* interleaving of the connect, message, close and alarm handlers at their
\* awaits, every open channel has a User record stored under session-{id}.
C1_OpenChannelsHaveRecords ==
  tasks = <<>> => \A c \in getConnections(World) : c \in DOMAIN session

\* C2: when the validation of a new connection fails (the service answers
\* non-OK, or the path holds no room code), that channel gets one error
\* message and is closed with 4004; no session or heartbeat record is created
\* or changed, no alarm is armed, and no other channel receives anything.
C2_RejectedConnection ==
  (Done /\ ev.kind = "connect" /\ extractRoomCode(ev.url) \notin svc.valid) =>
    /\ sent[ev.conn] = <<ErrorMsg("Room invalid")>>
    /\ codes[ev.conn] = 4004
    /\ conns[ev.conn] = "closing"
    /\ session = ev.pre.session
    /\ heartbeat = ev.pre.heartbeat
    /\ alarmAt = ev.pre.alarmAt
    /\ \A d \in ConnIds \ {ev.conn} : sent[d] = <<>> /\ codes[d] = 0

\* a connection is rejected while another channel is open and has a record
C2_Witness ==
  /\ Done /\ ev.kind = "connect" /\ extractRoomCode(ev.url) \notin svc.valid
  /\ codes[ev.conn] = 4004
  /\ \E d \in ConnIds \ {ev.conn} : conns[d] = "open" /\ d \in DOMAIN session

\* -------------------------------------------------- a room nobody is swept from
\* The room while every connection is accepted and no sweep is due: here the
\* server closes a channel only because its client sent userLeft.
LeaveMessages(c) ==
  { m \in ClientMessages(c) :
      /\ m.type \in {"userLeft", "heartbeat", "userUpdate"}
      /\ m.type = "userUpdate" => m.user.id = c }

NextLeave ==
  \/ \E c \in ConnIds :
       Quiet /\ Connect(c, AsyncUrl, AsyncService, TRUE)
             /\ UNCHANGED << started, races >>
  \/ \E c \in ConnIds : \E data \in LeaveMessages(c) :
       Quiet /\ Message(c, data, TRUE) /\ UNCHANGED << started, races >>
  \/ \E c \in ConnIds : Quiet /\ Closed(c, TRUE) /\ UNCHANGED << started, races >>
  \/ \E i \in 1 .. Len(tasks) : Resume(i, TRUE)
  \/ Settle

SpecLeave == Init /\ [][NextLeave]_vars

\* C3: once a userLeft of channel c has been handled, c is closed with code
\* 1000, session-c and heartbeat-c are gone, and until c connects again no
\* roomState lists c and the stored roster does not hold c, whichever other
\* messages of c are handled after it.
C3_LeftUserStaysOut ==
  \A c \in ConnIds :
    /\ (/\ Done /\ ev.kind = "message" /\ ev.conn = c /\ c \in ev.pre.open
        /\ ev.data.type = "userLeft") => codes[c] = 1000
    /\ (tasks = <<>> /\ conns[c] = "closing") =>
         /\ c \notin DOMAIN session
         /\ c \notin DOMAIN heartbeat
         /\ \A d \in ConnIds : \A i \in RoomStates(d) :
              \A j \in 1 .. Len(sent[d][i].state.users) :
                sent[d][i].state.users[j].id # c

\* a user record does not outlive the sweep that finds its heartbeat absent
\* or older than the interval
Stale(id) ==
  id \notin DOMAIN ev.pre.heartbeat \/ ev.pre.heartbeat[id] + alarmInterval < now

\* the records a sweep leaves in place
Survivors ==
  [id \in {i \in DOMAIN ev.pre.session : ~Stale(i)} |-> ev.pre.session[id]]

\* C4: when the last user of a meeting has left, by userLeft or by eviction,
\* the sweep that finds no user ends the meeting: a report with status 'done'
\* goes to the lifecycle service and roomCode, meetingId and every session and
\* heartbeat record are removed; and as long as a meeting without users is
\* stored an alarm is armed, so that sweep fires without any client activity.
C4_LastUserLeftEndsMeeting ==
  /\ (/\ Done /\ ev.kind = "alarm" /\ ev.pre.meetingId # NoMeetingId
      /\ DOMAIN Survivors = {}) =>
       /\ \E i \in 1 .. Len(posts) :
            posts[i].status = "done" /\ posts[i].roomId = ev.pre.roomCode
       /\ roomCode = Undefined
       /\ meetingId = NoMeetingId
       /\ session = NoRecords
       /\ heartbeat = NoRecords
  /\ (tasks = <<>> /\ meetingId # NoMeetingId /\ DOMAIN session = {}) =>
       alarmAt # NoAlarm

\* a sweep evicts the last user and ends the meeting
C4_Witness ==
  /\ Done /\ ev.kind = "alarm" /\ ev.pre.meetingId # NoMeetingId
  /\ DOMAIN ev.pre.session # {} /\ DOMAIN Survivors = {}
  /\ meetingId = NoMeetingId
  /\ \E i \in 1 .. Len(posts) : posts[i].status = "done"

\* C5: one sweep removes every stored User whose heartbeat is absent or older
\* than the interval (heartbeat + 15000 < now), every roomState broadcast after
\* it lists exactly the others, and those keep their records unchanged.
C5_SweepEvictsStale ==
  (Done /\ ev.kind = "alarm") =>
    /\ \A id \in DOMAIN ev.pre.session :
         IF Stale(id) THEN id \notin DOMAIN session
         ELSE id \in DOMAIN session /\ session[id] = ev.pre.session[id]
    /\ \A d \in ConnIds : \A i \in RoomStates(d) :
         sent[d][i].state.users = Values(Survivors)

\* a sweep evicts one user and keeps another, whose channel gets the roster
C5_Witness ==
  /\ Done /\ ev.kind = "alarm"
  /\ \E id \in DOMAIN ev.pre.session : Stale(id) /\ id \notin DOMAIN session
  /\ \E id \in DOMAIN ev.pre.session :
       ~Stale(id) /\ conns[id] = "open" /\ RoomStates(id) # {}

\* the messages of a type among the messages delivered to channel c
OfType(c, type) == {i \in 1 .. Len(sent[c]) : sent[c][i].type = type}

\* the event is a handled client message of that type
Handled(type) == Done /\ ev.kind = "message" /\ ev.data.type = type

\* no stored key differs from what the event met
StorageUnchanged ==
  /\ roomCode = ev.pre.roomCode
  /\ meetingId = ev.pre.meetingId
  /\ session = ev.pre.session
  /\ heartbeat = ev.pre.heartbeat
  /\ alarmAt = ev.pre.alarmAt

\* what C6 says of a handled directMessage: one directMessage for the
\* target, carrying the sender's stored name, none for anyone else, and no
\* change to storage
DirectMessageDelivered ==
  /\ ev.conn \in DOMAIN ev.pre.session
  /\ Cardinality(OfType(ev.data.to, "directMessage")) = 1
  /\ \A i \in OfType(ev.data.to, "directMessage") :
       sent[ev.data.to][i] =
         [type |-> "directMessage", from |-> ev.pre.session[ev.conn].name,
          message |-> ev.data.message]
  /\ \A d \in ConnIds \ {ev.data.to} : OfType(d, "directMessage") = {}
  /\ StorageUnchanged

C7_MuteUnknownTarget ==
  (Handled("muteUser") /\ ev.data.id \notin ev.pre.open) =>
    /\ session = ev.pre.session
    /\ \A d \in ConnIds : OfType(d, "muteMic") = {} /\ OfType(d, "roomState") = {}

\* the target has left a record with its microphone on, but its channel is
\* not open any more
C7_Witness ==
  /\ Handled("muteUser") /\ ev.data.id \notin ev.pre.open
  /\ ev.data.id \in DOMAIN session
  /\ session[ev.data.id].tracks.audioEnabled
  /\ ev.conn \in ev.pre.open

\* C8: a muteUser whose id matches an open channel with a stored User sets
\* tracks.audioEnabled of that record to false and changes nothing else in
\* storage, sends muteMic to the target only, and then broadcasts the updated
\* roomState to every open channel.
C8_MuteOpenTarget ==
  (/\ Handled("muteUser") /\ ev.data.id \in ev.pre.open
   /\ ev.data.id \in DOMAIN ev.pre.session) =>
    /\ session = [ev.pre.session EXCEPT ![ev.data.id].tracks.audioEnabled = FALSE]
    /\ roomCode = ev.pre.roomCode /\ meetingId = ev.pre.meetingId
    /\ heartbeat = ev.pre.heartbeat
    /\ \A d \in ConnIds :
         sent[d] = (IF d = ev.data.id THEN <<MuteMicMsg>> ELSE <<>>)
                   \o (IF d \in ev.pre.open
                       THEN <<RoomStateMsg(meetingId, session)>> ELSE <<>>)

\* a user mutes another one whose microphone is on
C8_Witness ==
  /\ Handled("muteUser") /\ ev.data.id \in ev.pre.open /\ ev.data.id # ev.conn
  /\ ev.conn \in ev.pre.open
  /\ ev.data.id \in DOMAIN ev.pre.session
  /\ ev.pre.session[ev.data.id].tracks.audioEnabled
  /\ ~session[ev.data.id].tracks.audioEnabled
  /\ OfType(ev.data.id, "muteMic") # {}

\* C9: after userUpdate{user} from channel c the stored record of c is the
\* submitted payload, every roomState the message triggers lists that payload
\* for c and every other user as stored before, and when c is open every
\* open channel gets that roomState.
C9_UserUpdateRoundTrip ==
  Handled("userUpdate") =>
    LET roster == Put(ev.pre.session, ev.conn, ev.data.user)
    IN /\ session = roster
       /\ \A d \in ConnIds : \A i \in RoomStates(d) :
            sent[d][i].state.users = Values(roster)
       /\ ev.conn \in ev.pre.open => \A d \in ev.pre.open : RoomStates(d) # {}

\* a user changes its record while another user is in the room
C9_Witness ==
  /\ Handled("userUpdate") /\ ev.conn \in ev.pre.open
  /\ ev.conn \in DOMAIN ev.pre.session
  /\ ev.pre.session[ev.conn] # ev.data.user
  /\ \E d \in ev.pre.open \ {ev.conn} : d \in DOMAIN session /\ RoomStates(d) # {}

\* C10: after a meeting has ended and its storage was cleared, the next
\* connection is validated again: when its room code is valid a new meeting
\* id, different from the ended meeting's, is stored and the room code is
\* stored again; when it is not, the connection is rejected.
C10_NewMeetingAfterEnd ==
  (/\ Done /\ ev.kind = "connect" /\ lastEnded # NoMeetingId
   /\ ev.pre.meetingId = NoMeetingId /\ ev.pre.roomCode = Undefined) =>
    IF extractRoomCode(ev.url) \in svc.valid
    THEN /\ meetingId \notin {NoMeetingId, lastEnded}
         /\ roomCode = extractRoomCode(ev.url)
         /\ conns[ev.conn] = "open"
    ELSE /\ meetingId = NoMeetingId
         /\ codes[ev.conn] = 4004

\* a client connects to the room of an ended meeting and a new one starts
C10_Witness ==
  /\ Done /\ ev.kind = "connect" /\ lastEnded # NoMeetingId
  /\ ev.pre.meetingId = NoMeetingId /\ ev.pre.roomCode = Undefined
  /\ extractRoomCode(ev.url) \in svc.valid
  /\ meetingId \notin {NoMeetingId, lastEnded}

\* C12 as stated: at every settle point every stored User record belongs to
\* an open channel (a user the sweep evicted has no record any more), so no
\* record of a closed channel is stored.
C12_RecordsHaveOpenChannels ==
  tasks = <<>> => \A id \in DOMAIN session : conns[id] # "closed"

\* C12, amended: a stored User record belongs to an open channel or to a
\* channel that is not open any more and that no sweep has yet found with a
\* heartbeat absent or older than the interval: every record a sweep leaves
\* in place, of an open channel or not, has a heartbeat that is not older
\* than the interval.
C12_RecordsAwaitSweep ==
  (Done /\ ev.kind = "alarm") =>
       \A id \in DOMAIN session :
         id \in DOMAIN heartbeat /\ heartbeat[id] + alarmInterval >= now

\* a sweep has left the record of a closed channel in place
C12_Witness ==
  /\ Done /\ ev.kind = "alarm"
  /\ \E id \in DOMAIN session : conns[id] = "closed" /\ id \in DOMAIN ev.pre.session

\* ------------------------------------------------------ one meeting, start to end
\* Two clients of a valid room: A connects, B connects, A mutes B, B leaves,
\* and A falls silent while the alarm keeps firing.  `started` counts the
\* events begun; each handler runs await by await.
ChannelA == CHOOSE c \in ConnIds : \A d \in ConnIds : c <= d
ChannelB == CHOOSE c \in ConnIds : \A d \in ConnIds : c >= d

Step == started' = started + 1 /\ UNCHANGED races

NextScenario ==
  \/ Quiet /\ started = 0
           /\ Connect(ChannelA, AsyncUrl, AsyncService, FALSE) /\ Step
  \/ Quiet /\ started = 1
           /\ Connect(ChannelB, AsyncUrl, AsyncService, FALSE) /\ Step
  \/ Quiet /\ started = 2
           /\ Message(ChannelA, [type |-> "muteUser", id |-> ChannelB], FALSE)
           /\ Step
  \/ Quiet /\ started = 3
           /\ Message(ChannelB, [type |-> "userLeft"], FALSE) /\ Step
  \/ Quiet /\ started >= 4 /\ conns[ChannelB] = "closing"
           /\ Closed(ChannelB, FALSE) /\ UNCHANGED << started, races >>
  \/ Quiet /\ started >= 4 /\ Alarm(FALSE) /\ Step
  \/ Quiet /\ started >= 4 /\ Tick
  \/ \E i \in 1 .. Len(tasks) : Resume(i, FALSE)
  \/ Settle

SpecScenario == Init /\ [][NextScenario]_vars

\* the users the roomState messages delivered to channel c list
Rosters(c) == {sent[c][i].state.users : i \in RoomStates(c)}

\* C11: in that scenario the roster broadcasts after the two connects list
\* one and then two users, each with joined = false; after A's muteUser B's
\* stored audioEnabled is false, B has received muteMic and both have
\* received a roomState; after B's userLeft channel B is closed with 1000, A
\* has received userLeftNotification{id: B} and the roster lists only A; and
\* the sweep that finds A's heartbeat older than the interval evicts A,
\* reports 'done' and leaves the room's storage empty.
C11_MeetingScenario ==
  /\ (Done /\ started = 1) =>
       /\ Rosters(ChannelA) # {}
       /\ \A r \in Rosters(ChannelA) :
            Len(r) = 1 /\ r[1].id = ChannelA /\ ~r[1].joined
  /\ (Done /\ started = 2) =>
       \A c \in {ChannelA, ChannelB} :
         /\ Rosters(c) # {}
         /\ \A r \in Rosters(c) :
              /\ Len(r) = 2 /\ {r[1].id, r[2].id} = {ChannelA, ChannelB}
              /\ ~r[1].joined /\ ~r[2].joined
  /\ (Done /\ started = 3) =>
       /\ ~session[ChannelB].tracks.audioEnabled
       /\ OfType(ChannelB, "muteMic") # {} /\ OfType(ChannelA, "muteMic") = {}
       /\ RoomStates(ChannelA) # {} /\ RoomStates(ChannelB) # {}
  /\ (Done /\ started = 4 /\ ev.kind = "message") =>
       /\ codes[ChannelB] = 1000
       /\ \E i \in 1 .. Len(sent[ChannelA]) :
            sent[ChannelA][i] = [type |-> "userLeftNotification", id |-> ChannelB]
       /\ DOMAIN session = {ChannelA}
       /\ Rosters(ChannelA) # {}
       /\ \A r \in Rosters(ChannelA) : Len(r) = 1 /\ r[1].id = ChannelA
  /\ (/\ Done /\ ev.kind = "alarm" /\ ChannelA \in DOMAIN ev.pre.session
      /\ ev.pre.heartbeat[ChannelA] + alarmInterval < now) =>
       /\ DOMAIN session = {} /\ DOMAIN heartbeat = {}
       /\ roomCode = Undefined /\ meetingId = NoMeetingId
       /\ \E i \in 1 .. Len(posts) : posts[i].status = "done"

\* the scenario has run to its end: the sweep has evicted A and the meeting
\* is over
C11_Witness ==
  /\ Done /\ ev.kind = "alarm" /\ started > 4
  /\ ChannelA \in DOMAIN ev.pre.session /\ DOMAIN session = {}
  /\ conns[ChannelB] = "closed"
  /\ \E i \in 1 .. Len(posts) : posts[i].status = "done"

\* C13: within one meeting, from its creation until endMeeting clears the
\* storage, the stored meetingId is written once and never changes, also
\* when two first connections interleave at their awaits.
C13_MeetingIdWrittenOnce ==
  [][meetingId # NoMeetingId => meetingId' \in {meetingId, NoMeetingId}]_vars

\* ------------------------------------------------------- failing transports
\* The room of a running meeting when the transport of an open channel may
\* fail, so that connection.send() on it throws from then on.  The clients
\* connect to a valid room and update their records; no sweep is due.  Each
\* handler runs await by await.
Break(c) ==
  /\ conns[c] = "open"
  /\ c \notin broken
  /\ broken' = broken \cup {c}
  /\ UNCHANGED << roomCode, meetingId, session, heartbeat, alarmAt, conns,
                  codes, now, svc, uuid, tasks, sent, posts, ev, lastEnded,
                  started, races >>

UpdateMessages(c) == {m \in ClientMessages(c) : m.type = "userUpdate"}

NextBroken ==
  \/ \E c \in ConnIds \ broken :
       Quiet /\ Connect(c, AsyncUrl, AsyncService, FALSE)
             /\ UNCHANGED << started, races >>
  \/ \E c \in ConnIds : \E data \in UpdateMessages(c) :
       Quiet /\ Message(c, data, FALSE) /\ UNCHANGED << started, races >>
  \/ \E c \in ConnIds : Quiet /\ Closed(c, FALSE) /\ UNCHANGED << started, races >>
  \/ \E c \in ConnIds : Quiet /\ Break(c)
  \/ \E i \in 1 .. Len(tasks) : Resume(i, FALSE)
  \/ Settle

SpecBroken == Init /\ [][NextBroken]_vars

\* the channels that were open when the event arrived and whose send() throws
Failing == ev.pre.open \cap broken

\* the event is a handled userUpdate of an open channel, whose roster
\* broadcast meets at least one failing channel
FailedBroadcast ==
  Handled("userUpdate") /\ ev.conn \in ev.pre.open /\ Failing # {}

\* C14: when the send of a broadcast to one channel fails, every other open
\* channel still receives the broadcast message, the failing channel is
\* closed with 1011 and the handler that triggered the broadcast does not
\* fail (it reports no error to its sender).
C14_SendFailureIsolated ==
  FailedBroadcast =>
    /\ \A c \in Failing : codes[c] = 1011 /\ sent[c] = <<>>
    /\ \A d \in ev.pre.open \ broken :
         /\ sent[d] # <<>>
         /\ sent[d][1] =
              [type |-> "roomState",
               state |-> [meetingId |-> ev.pre.meetingId,
                          users |-> Values(Put(ev.pre.session, ev.conn,
                                               ev.data.user))]]
    /\ \A d \in ConnIds : OfType(d, "error") = {}

\* the broadcast fails on one channel and another channel gets the message
C14_Witness ==
  /\ FailedBroadcast
  /\ \E c \in Failing : c \in DOMAIN ev.pre.session /\ codes[c] = 1011
  /\ \E d \in ev.pre.open \ broken : sent[d] # <<>>

\* C15: when a broadcast send to channel c fails, session-c and heartbeat-c
\* are both deleted and the roster is broadcast a second time without c.
C15_FailedChannelForgotten ==
  FailedBroadcast =>
    /\ \A c \in Failing : c \notin DOMAIN session /\ c \notin DOMAIN heartbeat
    /\ \A d \in ev.pre.open \ broken :
         /\ Cardinality(RoomStates(d)) = 2
         /\ sent[d][Len(sent[d])].type = "roomState"
         /\ \A j \in 1 .. Len(sent[d][Len(sent[d])].state.users) :
              sent[d][Len(sent[d])].state.users[j].id \notin Failing

\* C16: for every user a sweep evicts, userLeftNotification{id} reaches the
\* channels that stay open, its User record and its heartbeat record are
\* deleted, and its channel, when still open, is closed with 1011.
C16_EvictionCleansUp ==
  (Done /\ ev.kind = "alarm") =>
    \A id \in DOMAIN ev.pre.session :
      Stale(id) =>
        /\ id \notin DOMAIN session
        /\ id \notin DOMAIN heartbeat
        /\ id \in ev.pre.open => codes[id] = 1011
        /\ \A d \in getConnections(World) :
             \E i \in 1 .. Len(sent[d]) :
               sent[d][i] = [type |-> "userLeftNotification", id |-> id]

\* C17: after an alarm has been handled the alarm is armed again, one
\* interval ahead, exactly when users remain after the sweep; when none
\* remains the meeting is ended and no alarm is armed.
C17_RearmedIffUsersRemain ==
  (Done /\ ev.kind = "alarm") =>
    IF DOMAIN session # {}
    THEN alarmAt = now + alarmInterval
    ELSE /\ alarmAt = NoAlarm
         /\ meetingId = NoMeetingId
         /\ ev.pre.meetingId # NoMeetingId => lastEnded = ev.pre.meetingId

\* an alarm evicts one user, keeps another and is armed again
C17_Witness ==
  /\ Done /\ ev.kind = "alarm"
  /\ DOMAIN session # {} /\ DOMAIN session # DOMAIN ev.pre.session
  /\ alarmAt = now + alarmInterval

\* the alarm's sweep has evicted a user and has left another one
EvictingSweep ==
  /\ Done /\ ev.kind = "alarm"
  /\ DOMAIN session # {}
  /\ \E id \in DOMAIN ev.pre.session : id \notin DOMAIN session

\* C18 as stated: an alarm whose sweep evicts a user and leaves the room
\* non-empty broadcasts the updated roster exactly once to each open channel.
C18_RosterOnceAfterEviction ==
  EvictingSweep =>
    \A d \in getConnections(World) : Cardinality(RoomStates(d)) = 1

\* C18, amended: such an alarm broadcasts the updated roster twice to each
\* open channel, once from the sweep (not awaited) and once from the alarm
\* handler after it, and both list exactly the users that remain.
C18_RosterTwiceAfterEviction ==
  EvictingSweep =>
    \A d \in getConnections(World) :
      /\ Cardinality(RoomStates(d)) = 2
      /\ \A i \in RoomStates(d) : sent[d][i].state.users = Values(session)

\* a sweep evicts one user and the other one, still connected, gets the roster
C18_Witness ==
  /\ EvictingSweep
  /\ \E d \in getConnections(World) : d \in DOMAIN session /\ RoomStates(d) # {}

\* C19: the close of a channel changes no stored record and sends nothing,
\* so session-{id} and heartbeat-{id} of the closed channel stay; and a User
\* record disappears only in the userLeft of its own channel or in a sweep
\* that finds it stale (the teardown of a room follows such a sweep).
C19_CloseKeepsRecords ==
  /\ (Done /\ ev.kind = "close") =>
       /\ StorageUnchanged
       /\ \A d \in ConnIds : sent[d] = <<>>
  /\ Done =>
       \A id \in DOMAIN ev.pre.session \ DOMAIN session :
         \/ ev.kind = "message" /\ ev.data.type = "userLeft" /\ ev.conn = id
         \/ ev.kind \in {"alarm", "connect"} /\ Stale(id)

\* the channel of a user with a record and a heartbeat has closed
C19_Witness ==
  /\ Done /\ ev.kind = "close" /\ conns[ev.conn] = "closed"
  /\ ev.conn \in ev.pre.open
  /\ ev.conn \in DOMAIN session /\ ev.conn \in DOMAIN heartbeat

\* ------------------------------------------------------- abrupt closes
\* The room of a running meeting whose clients send heartbeats and whose
\* channels close without a userLeft, watched for MaxSilence intervals.
HeartbeatMessages(c) == {m \in ClientMessages(c) : m.type = "heartbeat"}

NextClose ==
  \/ \E c \in ConnIds :
       Quiet /\ Connect(c, AsyncUrl, AsyncService, TRUE)
             /\ UNCHANGED << started, races >>
  \/ \E c \in ConnIds : \E data \in HeartbeatMessages(c) :
       Quiet /\ conns[c] = "open" /\ Message(c, data, TRUE)
             /\ UNCHANGED << started, races >>
  \/ \E c \in ConnIds : Quiet /\ Closed(c, TRUE) /\ UNCHANGED << started, races >>
  \/ Quiet /\ Alarm(TRUE) /\ UNCHANGED << started, races >>
  \/ \E i \in 1 .. Len(tasks) : Resume(i, TRUE)
  \/ Settle
  \/ Quiet /\ Elapse(MaxSilence)

SpecClose == Init /\ [][NextClose]_vars

\* C20 as stated: the record of a channel that closed without userLeft is
\* removed by the first sweep that fires after the close.
C20_FirstSweepRemoves ==
  (Done /\ ev.kind = "alarm") =>
    \A id \in DOMAIN ev.pre.session : conns[id] = "closed" => id \notin DOMAIN session

\* C20, amended: such a record is removed by the first sweep that finds its
\* heartbeat older than the interval, which is the first or the second sweep
\* after the close: while it is stored, no more than two intervals have
\* passed since the channel's last heartbeat.
C20_RemovedWithinTwoIntervals ==
  tasks = <<>> =>
    \A id \in DOMAIN session :
      conns[id] = "closed" =>
        /\ id \in DOMAIN heartbeat
        /\ now <= heartbeat[id] + 2 * alarmInterval
        /\ alarmAt # NoAlarm

\* the second sweep after its last heartbeat removes the record of a closed
\* channel that the first one had left in place
C20_Witness ==
  /\ Done /\ ev.kind = "alarm"
  /\ \E id \in DOMAIN ev.pre.session \ DOMAIN session :
       /\ conns[id] = "closed"
       /\ now = ev.pre.heartbeat[id] + 2 * alarmInterval

\* the event is a handled message of an open channel that is not JSON or
\* carries a tag onMessage does not know
BadMessage ==
  /\ Done /\ ev.kind = "message" /\ ev.conn \in ev.pre.open
  /\ ev.data.type \in {"not json", "bogus"}

\* C21: a message that is malformed JSON or carries an unknown tag gets one
\* error payload sent to its sender and nothing sent to anyone else, leaves
\* the sender's channel open (so later messages on it are handled), closes
\* no channel and changes no stored record.
C21_BadMessageReported ==
  BadMessage =>
    /\ Len(sent[ev.conn]) = 1 /\ sent[ev.conn][1].type = "error"
    /\ \A d \in ConnIds \ {ev.conn} : sent[d] = <<>>
    /\ conns[ev.conn] = "open"
    /\ \A d \in ConnIds : codes[d] = 0
    /\ StorageUnchanged

\* a bad message arrives while another user is in the room
C21_Witness ==
  /\ BadMessage
  /\ OfType(ev.conn, "error") # {}
  /\ \E d \in ev.pre.open \ {ev.conn} : d \in DOMAIN session

\* C22: a directMessage of an open channel whose `to` matches no open
\* channel delivers no directMessage, sends nothing to its sender or to
\* anyone else, leaves the sender's channel open and changes no stored
\* record.
C22_DirectMessageDropped ==
  (/\ Handled("directMessage") /\ ev.conn \in ev.pre.open
   /\ ev.data.to \notin ev.pre.open) =>
    /\ \A d \in ConnIds : sent[d] = <<>> /\ codes[d] = 0
    /\ conns[ev.conn] = "open"
    /\ StorageUnchanged

\* the target has a stored record, but its channel is not open any more
C22_Witness ==
  /\ Handled("directMessage") /\ ev.conn \in ev.pre.open
  /\ ev.data.to \notin ev.pre.open /\ ev.data.to \in DOMAIN session
  /\ ev.conn \in DOMAIN session

\* ------------------------------------------------- what the service reports
\* The room while the lifecycle service knows it as valid, in any status and
\* with any peak it has recorded: clients connect and disconnect, and each
\* handler runs await by await.
Statuses == {"planned", "started", "done", "cancelled", "no_show"}

StatusStates ==
  { [valid |-> {"abc123"}, status |-> st, peakUsers |-> p] :
      st \in Statuses, p \in 0 .. MaxPeak }

NextStatus ==
  \/ \E c \in ConnIds : \E s \in StatusStates :
       Quiet /\ Connect(c, AsyncUrl, s, FALSE) /\ UNCHANGED << started, races >>
  \/ \E c \in ConnIds : Quiet /\ Closed(c, FALSE) /\ UNCHANGED << started, races >>
  \/ \E i \in 1 .. Len(tasks) : Resume(i, FALSE)
  \/ Settle

SpecStatus == Init /\ [][NextStatus]_vars

\* the frames of trackPeakUserCount that hold the meeting getMeeting returned
TrackedMeetings ==
  { tasks[i][j].meeting[1] :
      <<i, j>> \in { p \in (1 .. Len(tasks)) \X (1 .. 8) :
                      /\ p[2] <= Len(tasks[p[1]])
                      /\ tasks[p[1]][p[2]].fn = "trackPeakUserCount"
                      /\ tasks[p[1]][p[2]].meeting # <<>> } }

\* C23: the meeting getMeeting returns has ended = true exactly when the
\* service reports the status done, cancelled or no_show.
C23_EndedFlag ==
  \A m \in TrackedMeetings :
    m.ended <=> svc.status \in {"done", "cancelled", "no_show"}

\* a connection that was accepted and whose handler has run to its end
Accepted ==
  /\ Done /\ ev.kind = "connect"
  /\ conns[ev.conn] = "open" /\ ev.conn \in DOMAIN session

\* C24: a connect sends the 'started' report only when the roster is larger
\* than the peak the service holds or the meeting is flagged ended; with a
\* roster at or below that peak and a meeting not ended nothing is reported.
C24_ReportOnlyOnNewPeak ==
  Accepted =>
    (posts # <<>> <=>
       \/ Cardinality(DOMAIN getUsers(World)) > svc.peakUsers
       \/ Ended(svc.status))

\* C25: every 'started' report a connect sends carries as peakUsers the peak
\* read from the lifecycle service, unchanged, also when the roster is larger.
C25_ReportCarriesStoredPeak ==
  \A i \in 1 .. Len(posts) :
    posts[i].status = "started" => posts[i].peakUsers = svc.peakUsers

\* a connect reported while the roster was larger than the peak of the service
C25_Witness ==
  /\ Accepted /\ posts # <<>> /\ posts[1].status = "started"
  /\ Cardinality(DOMAIN getUsers(World)) > svc.peakUsers

\* ------------------------------------------------------ the end of a meeting
\* The room of a meeting that runs until the sweep finds it empty, with a
\* lifecycle service that accepts the closing report or refuses it; each
\* handler runs await by await.
ReportAnswers ==
  { [valid |-> v, status |-> "started", peakUsers |-> 1] : v \in {{}, {"abc123"}} }

\* the scheduled alarm is due while the service is in state s
Fire(s, alone) ==
  /\ alarmAt # NoAlarm
  /\ now >= alarmAt
  /\ Begin(AlarmFrame, [World EXCEPT !.alarmAt = NoAlarm, !.svc = s], alone)
  /\ ev' = Record([kind |-> "alarm", pre |-> Pre])
  /\ UNCHANGED << broken, now >>

NextEnd ==
  \/ \E c \in ConnIds :
       Quiet /\ Connect(c, AsyncUrl, AsyncService, FALSE)
             /\ UNCHANGED << started, races >>
  \/ \E c \in ConnIds : Quiet /\ Closed(c, FALSE) /\ UNCHANGED << started, races >>
  \/ \E s \in ReportAnswers : Quiet /\ Fire(s, FALSE) /\ UNCHANGED << started, races >>
  \/ \E i \in 1 .. Len(tasks) : Resume(i, FALSE)
  \/ Settle
  \/ Quiet /\ Tick

SpecEnd == Init /\ [][NextEnd]_vars

\* the reports with status 'done' posted by the event in progress
DoneReports == {i \in 1 .. Len(posts) : posts[i].status = "done"}

StorageEmpty ==
  /\ roomCode = Undefined /\ meetingId = NoMeetingId
  /\ session = NoRecords /\ heartbeat = NoRecords

\* C26: endMeeting deletes every stored key before it sends the 'done' report,
\* it sends that report once, and when the report fails nothing is stored
\* again and no second report follows.
C26_DeleteThenReportOnce ==
  /\ DoneReports # {} =>
       /\ ev.kind = "alarm" /\ ev.pre.meetingId # NoMeetingId
       /\ lastEnded = ev.pre.meetingId
  /\ (ev.kind = "alarm" /\ ev.pre.meetingId # NoMeetingId
       /\ lastEnded = ev.pre.meetingId) =>
       /\ StorageEmpty
       /\ Cardinality(DoneReports) <= 1
       /\ Done => Cardinality(DoneReports) = 1

\* a meeting has ended and the service refused the report
C26_Witness ==
  /\ Done /\ ev.kind = "alarm" /\ ev.pre.meetingId # NoMeetingId
  /\ lastEnded = ev.pre.meetingId
  /\ DoneReports # {} /\ svc.valid = {}
  /\ ev.pre.heartbeat # NoRecords

\* a connection to a room that has no meeting id stored
FirstConnect == ev.kind = "connect" /\ ev.pre.meetingId = NoMeetingId

C28_RoomCodeWrittenOnce ==
  [][/\ Truthy(roomCode) =>
          \/ roomCode' = roomCode
          \/ roomCode' = Undefined /\ lastEnded' # lastEnded
     /\ (~Truthy(roomCode) /\ Truthy(roomCode')) =>
          /\ ev'.kind = "connect"
          /\ roomCode' = extractRoomCode(ev'.url)
     /\ (Quiet /\ ev'.kind = "connect" /\ ~Truthy(roomCode)
          /\ Truthy(extractRoomCode(ev'.url))) =>
          roomCode' = extractRoomCode(ev'.url)]_vars

\* a connection carried another code than the stored one, which was kept
C28_Witness ==
  /\ Done /\ ev.kind = "connect" /\ Truthy(ev.pre.roomCode)
  /\ Truthy(extractRoomCode(ev.url))
  /\ extractRoomCode(ev.url) # ev.pre.roomCode
  /\ roomCode = ev.pre.roomCode
  /\ conns[ev.conn] = "open"

\* a connection that passed the validation
ValidConnect == Done /\ ev.kind = "connect" /\ conns[ev.conn] = "open"

C30_RecordKeptOrDefault ==
  ValidConnect =>
    /\ ev.conn \in DOMAIN session /\ ev.conn \in DOMAIN heartbeat
    /\ heartbeat[ev.conn] = now
    /\ session[ev.conn] =
         IF ev.conn \in DOMAIN ev.pre.session THEN ev.pre.session[ev.conn]
         ELSE [ id |-> ev.conn, name |-> getUsername(ev.conn), joined |-> FALSE,
                raisedHand |-> FALSE, speaking |-> FALSE,
                tracks |-> [ audioEnabled |-> FALSE, audioUnavailable |-> FALSE,
                             videoEnabled |-> FALSE,
                             screenShareEnabled |-> FALSE ] ]

\* a channel reconnected and found its record, which is not a default one,
\* with a heartbeat older than now
C30_Witness ==
  /\ ValidConnect /\ ev.conn \in DOMAIN ev.pre.session
  /\ ev.pre.session[ev.conn].joined
  /\ ev.conn \in DOMAIN ev.pre.heartbeat /\ ev.pre.heartbeat[ev.conn] < now
  /\ session[ev.conn] = ev.pre.session[ev.conn]

\* the users listed by the i-th message delivered to channel d
Listed(d, i) ==
  {sent[d][i].state.users[j] : j \in 1 .. Len(sent[d][i].state.users)}

\* C31: a valid connect ends with a roomState delivered to every open channel,
\* the new one included, whose users list holds the new user's record.
C31_ConnectBroadcastsRoster ==
  ValidConnect =>
    \A d \in getConnections(World) :
      /\ ev.conn \in DOMAIN session
      /\ RoomStates(d) # {}
      /\ \A i \in RoomStates(d) : session[ev.conn] \in Listed(d, i)

\* a second channel was open when the connect arrived
C31_Witness ==
  /\ ValidConnect /\ ev.pre.open \ {ev.conn} # {}
  /\ \A d \in ev.pre.open \cup {ev.conn} :
       /\ RoomStates(d) # {}
       /\ \A i \in RoomStates(d) : session[ev.conn] \in Listed(d, i)

\* C32: every stored record session-X has X, the id of its channel, as its id
\* field, whatever connects, userUpdates and muteUsers were handled.
C32_RecordIdIsChannelId ==
  \A x \in DOMAIN session : session[x].id = x

\* C33: a heartbeat of channel c sets heartbeat-c to the current time and
\* changes nothing else: the User records, the other heartbeats, the meeting
\* id, the room code and the timer stay, and nothing is sent or closed.
C33_HeartbeatOnly ==
  Handled("heartbeat") =>
    /\ DOMAIN heartbeat = DOMAIN ev.pre.heartbeat \cup {ev.conn}
    /\ heartbeat[ev.conn] = now
    /\ \A d \in DOMAIN ev.pre.heartbeat \ {ev.conn} :
         heartbeat[d] = ev.pre.heartbeat[d]
    /\ session = ev.pre.session
    /\ meetingId = ev.pre.meetingId /\ roomCode = ev.pre.roomCode
    /\ alarmAt = ev.pre.alarmAt
    /\ getConnections(World) = ev.pre.open
    /\ \A d \in ConnIds : sent[d] = <<>> /\ codes[d] = 0
    /\ posts = <<>>

\* a heartbeat renewed an older one while another channel had its own
C33_Witness ==
  /\ Handled("heartbeat") /\ ev.conn \in ev.pre.open
  /\ ev.conn \in DOMAIN ev.pre.heartbeat /\ ev.pre.heartbeat[ev.conn] < now
  /\ heartbeat[ev.conn] = now
  /\ \E d \in ev.pre.open \ {ev.conn} : d \in DOMAIN heartbeat

\* C34: at every settle point where a User record is stored a sweep timer is
\* scheduled, however an alarm firing interleaves with a concurrent onConnect.
C34_RosterHasTimer ==
  tasks = <<>> => (DOMAIN session # {} => alarmAt # NoAlarm)

\* C35: the 'done' report of endMeeting carries as peakUsers the peak the
\* lifecycle service holds for the room, not 0 when that peak is positive.
C35_DoneReportCarriesPeak ==
  \A i \in DoneReports :
    posts[i].roomId \in svc.valid => posts[i].peakUsers = svc.peakUsers

\* ------------------------------------------------- broadcasts come to an end
\* The room with failing transports, where the runtime resumes every
\* suspended task: an awaited storage operation or broadcast completes.  This
\* is weak fairness of Resume, whose enabling condition (a task is suspended)
\* is written out.
SpecBrokenLive ==
  SpecBroken /\ ( \/ []<>(tasks = <<>>)
                  \/ []<><<\E i \in 1 .. Len(tasks) : Resume(i, FALSE)>>_vars )

\* the broadcastMessage calls nested in the i-th suspended task
Chain(i) ==
  {j \in 1 .. Len(tasks[i]) : tasks[i][j].fn = "broadcastMessage"}

BroadcastRunning == \E i \in 1 .. Len(tasks) : Chain(i) # {}

\* C36: broadcastMessage terminates whatever sends fail: a failed send leads
\* to a roster re-broadcast, and the chain of re-broadcasts is finite since a
\* channel that failed was closed and is not sent to again.
C36_BroadcastTerminates ==
  /\ [](\A i \in 1 .. Len(tasks) :
          Cardinality(Chain(i)) <= Cardinality(ConnIds) + 1)
  /\ BroadcastRunning ~> tasks = <<>>

\* a broadcast met a failing channel, was repeated and has ended
C36_Witness ==
  /\ FailedBroadcast
  /\ \E d \in ev.pre.open \ broken : Cardinality(RoomStates(d)) > 1

\* ------------------------------------------- awaits that complete in order
\* The room while every connection is accepted and no sweep is due, with the
\* awaited storage operations completing in the order they were issued: the
\* task that has waited longest resumes first, and a task started without
\* await issued its first operation before its caller issued the next one.
ResumeInOrder ==
  /\ tasks # <<>>
  /\ LET r == Drive(Task(World, Head(tasks)), Tail(tasks), FALSE)
         again == IF r.st = <<>> THEN <<>> ELSE <<r.st>>
     IN Commit([r EXCEPT !.st = <<>>, !.sp = r.sp \o again], <<>>, Tail(tasks))
  /\ UNCHANGED << broken, now, ev, started, races >>

NextInOrder ==
  \/ \E c \in ConnIds :
       Quiet /\ Connect(c, AsyncUrl, AsyncService, FALSE)
             /\ UNCHANGED << started, races >>
  \/ \E c \in ConnIds : \E data \in LeaveMessages(c) :
       Quiet /\ Message(c, data, FALSE) /\ UNCHANGED << started, races >>
  \/ \E c \in ConnIds : Quiet /\ Closed(c, FALSE) /\ UNCHANGED << started, races >>
  \/ ResumeInOrder
  \/ Settle

SpecInOrder == Init /\ [][NextInOrder]_vars

\* the event is a userLeft of a channel that was open
Leaving == ev.kind = "message" /\ ev.data.type = "userLeft" /\ ev.conn \in ev.pre.open

\* the ids listed by the i-th message delivered to channel d
ListedIds(d, i) ==
  {sent[d][i].state.users[j].id : j \in 1 .. Len(sent[d][i].state.users)}

MaxBeats == 7

\* setInterval(() => websocket.send({type: 'heartbeat'}), 5_000)
heartbeatIntervalMut == alarmInterval + 5000
heartbeatInterval == 5000

Beat ==
  /\ now < MaxBeats * heartbeatInterval
  /\ alarmAt # NoAlarm \/ DOMAIN session # {}
  /\ ~(alarmAt # NoAlarm /\ now >= alarmAt)
  /\ conns[ChannelA] = "open" =>
       ChannelA \in DOMAIN heartbeat /\ heartbeat[ChannelA] = now
  /\ now' = now + heartbeatInterval
  /\ UNCHANGED << roomCode, meetingId, session, heartbeat, alarmAt, conns,
                  codes, broken, svc, uuid, tasks, sent, posts, ev, lastEnded,
                  started, races >>

NextBeat ==
  \/ \E c \in ConnIds :
       Quiet /\ Connect(c, AsyncUrl, AsyncService, TRUE)
             /\ UNCHANGED << started, races >>
  \/ \E c \in ConnIds : \E data \in HeartbeatMessages(c) :
       Quiet /\ conns[c] = "open" /\ Message(c, data, TRUE)
             /\ UNCHANGED << started, races >>
  \/ \E c \in ConnIds : Quiet /\ Closed(c, TRUE) /\ UNCHANGED << started, races >>
  \/ Quiet /\ Alarm(TRUE) /\ UNCHANGED << started, races >>
  \/ \E i \in 1 .. Len(tasks) : Resume(i, TRUE)
  \/ Settle
  \/ Quiet /\ Beat

SpecBeat == Init /\ [][NextBeat]_vars

\* C38: a connected client that sends a heartbeat every 5 seconds, each one
\* handled before the next sweep, is never evicted by a sweep: its channel is
\* not closed with 1011 and its record stays while the channel is open.
C38_BeatingClientStays ==
  /\ codes[ChannelA] # 1011
  /\ (tasks = <<>> /\ conns[ChannelA] = "open") => ChannelA \in DOMAIN session

\* a sweep, two intervals after the start, evicted the silent client and left
\* the beating one
C38_Witness ==
  /\ Done /\ ev.kind = "alarm" /\ now >= 2 * alarmInterval
  /\ ev.pre.open = {ChannelA, ChannelB}
  /\ codes[ChannelB] = 1011 /\ ChannelB \notin DOMAIN session
  /\ conns[ChannelA] = "open" /\ ChannelA \in DOMAIN session
  /\ heartbeat[ChannelA] >= 2 * alarmInterval - heartbeatInterval

\* ------------------------------------------------------------- restarts
\* The room whose coordinator may be restarted while idle.  The storage and
\* the timer outlive the restart.  The channels are dropped with the instance
\* (hibernation is switched off in the class), or kept where the runtime
\* hands them to the new instance.  onStart then runs before anything else,
\* with the service holding the stored room as valid or not.
Dropped == [c \in ConnIds |-> "closed"]

Restart(s, kept, alone) ==
  /\ Begin(OnStartFrame,
           [World EXCEPT !.conns = IF kept THEN conns ELSE Dropped, !.svc = s],
           alone)
  /\ ev' = Record([kind |-> "start", pre |-> Pre,
                   open |-> IF kept THEN getConnections(World) ELSE {}])
  /\ UNCHANGED << broken, now >>

NextStart ==
  \/ \E c \in ConnIds :
       Quiet /\ Connect(c, AsyncUrl, AsyncService, TRUE)
             /\ UNCHANGED << started, races >>
  \/ \E c \in ConnIds : \E data \in HeartbeatMessages(c) :
       Quiet /\ conns[c] = "open" /\ Message(c, data, TRUE)
             /\ UNCHANGED << started, races >>
  \/ \E c \in ConnIds : Quiet /\ Closed(c, TRUE) /\ UNCHANGED << started, races >>
  \/ Quiet /\ Alarm(TRUE) /\ UNCHANGED << started, races >>
  \/ \E s \in ReportAnswers : \E kept \in BOOLEAN :
       Quiet /\ Restart(s, kept, TRUE) /\ UNCHANGED << started, races >>
  \/ \E i \in 1 .. Len(tasks) : Resume(i, TRUE)
  \/ Settle
  \/ Quiet /\ Tick

SpecStart == Init /\ [][NextStart]_vars

\* the coordinator has started and onStart has run to its end
Started == Done /\ ev.kind = "start"

\* C39: when the coordinator starts with a stored room code that the service
\* reports invalid, the timer is cancelled, no channel is left open (each one
\* that was is closed with 4004) and every stored key is deleted; when no room
\* code is stored or the room is valid, onStart changes nothing.
C39_StartTearsDownInvalidRoom ==
  Started =>
    IF Truthy(ev.pre.roomCode) /\ ev.pre.roomCode \notin svc.valid
    THEN /\ alarmAt = NoAlarm
         /\ StorageEmpty
         /\ getConnections(World) = {}
         /\ \A c \in ev.open : codes[c] = 4004
    ELSE /\ StorageUnchanged
         /\ getConnections(World) = ev.open
         /\ \A c \in ConnIds : sent[c] = <<>> /\ codes[c] = 0
         /\ posts = <<>>

\* a restart found records and a timer of a room that is no longer valid
C39_Witness ==
  /\ Started /\ Truthy(ev.pre.roomCode) /\ svc.valid = {}
  /\ ev.pre.alarmAt # NoAlarm /\ ev.pre.session # NoRecords
  /\ ev.pre.meetingId # NoMeetingId
  /\ alarmAt = NoAlarm /\ StorageEmpty
  /\ ev.open # {} /\ \A c \in ev.open : codes[c] = 4004

====
